---- MODULE Spec2Model ----
(***************************************************************************)
(* Model of the 8086 MOV decoder of jorovipe97/performance-aware-homework. *)
(*                                                                         *)
(* The decoder package (Decoder.HasNext, Decoder.Next, analyzeOpCode,      *)
(* AsmString and the per-variant decode functions) is modelled as          *)
(* operators over byte sequences; the callers of the package (the loop of  *)
(* main.go and an arbitrary importer of the exported API) are the actions. *)
(*                                                                         *)
(* Bytes are naturals 0..255.  Go indexes from 0, TLA+ sequences from 1:   *)
(* At(s, i) is s[i] of the Go source.  x >> n is x \div 2^n and x & mask   *)
(* (mask = 2^n - 1) is x % 2^n.                                            *)
(***************************************************************************)
EXTENDS Integers, Sequences, FiniteSets, TLC

VARIABLES
    Data,       \* Decoder.Data: the bytes of the listing, len(Data) = Len(Data)
    capacity,   \* cap(Decoder.Data): size of the backing array, >= Len(Data)
    pos,        \* Decoder.pos
    client,     \* who drives the Decoder: "main" (main.go) or "caller" (any importer)
    pc,         \* position of main: "hasnext", "next", "render", "done", "panic"
    more,       \* result of the last HasNext call
    opcode,     \* first result of the last Next call
    instr,      \* second result of the last Next call (<<>> is nil)
    err,        \* third result of the last Next call
    asm,        \* result of the last AsmString call
    builder,    \* main: the lines written to the strings.Builder
    lengths     \* history: the lengths of the spans returned by successful Next calls

vars == <<Data, capacity, pos, client, pc, more, opcode, instr, err, asm, builder, lengths>>

----------------------------------------------------------------------------
(* Bounds of the model *)

\* longest listing drawn by Init
MaxLen == 4

\* largest number of spare bytes of the backing array behind len(Data)
MaxSlack == 1

\* the byte values listings are built from:
\* 0x00 0x01 (no variant; as a second byte mod=00), 0x8B (register/memory to
\* register, d=1 w=1; as a second byte mod=10), 0xA0 0xA1 (memory to
\* accumulator, w=0 / w=1), 0xC7 (immediate to register/memory, w=1; as a
\* second byte mod=11)
Alphabet == {0, 1, 139, 160, 161, 199}

Byte == 0 .. 255

\* the bytes behind the first two in the single-instruction listings: a
\* negative 8-bit displacement (0xDB) in a positive 16-bit one (0x01DB), a
\* negative 16-bit one (0xFFDB), and all bytes zero
Tails == { <<219, 1, 5, 0>>, <<219, 255, 5, 0>>, <<0, 0, 0, 0>> }

----------------------------------------------------------------------------
(* Go values *)

NoError == "nil"
EOF == "EOF"
CannotIdentify == "cannot identify instruction"
SliceOutOfRange == "panic: slice bounds out of range"

\* s[i] of the Go source (0-based); an index outside the slice is a run-time
\* panic in Go, recorded separately by the readers; the value is then unused
At(s, i) == IF i + 1 \in 1 .. Len(s) THEN s[i + 1] ELSE 0

Shr(x, n) == x \div (2 ^ n)

LowBits(x, n) == x % (2 ^ n)

\* int8(b)
Int8(b) == IF b >= 128 THEN b - 256 ELSE b

\* int16(lo) | int16(hi)<<8 : the shift wraps in 16 bits
Int16(lo, hi) == LET u == lo + 256 * hi IN IF u >= 32768 THEN u - 65536 ELSE u

\* uint16(lo) | uint16(hi)<<8
Uint16(lo, hi) == lo + 256 * hi

Digit(d) == SubSeq("0123456789", d + 1, d + 1)

RECURSIVE FormatNat(_)
FormatNat(n) == IF n < 10 THEN Digit(n) ELSE FormatNat(n \div 10) \o Digit(n % 10)

\* fmt.Sprintf("%v", n) for an integer n
FormatInt(n) == IF n < 0 THEN "-" \o FormatNat(0 - n) ELSE FormatNat(n)

----------------------------------------------------------------------------
(* Opcode constants *)

MovRegisterMemoryToFromRegister == 34   \* 0b0010_0010

MovImmediateToRegisterMemory == 99      \* 0b0110_0011

MovImmediateToRegister == 11            \* 0b1011

MovMemoryToAccumulator == 80            \* 0b0101_0000

MovAccumulatorToMemory == 81            \* 0b0101_0001

----------------------------------------------------------------------------
(* Decoder.HasNext *)

HasNext(d, p) == (p + 1) < Len(d)

(* analyzeOpCode: the fields it extracts from the first two bytes *)

\* modField := instruction[1] >> 6
analyzeModField(instruction) == Shr(At(instruction, 1), 6)

\* rmField := instruction[1] & 0b0000_0111
analyzeRmField(instruction) == LowBits(At(instruction, 1), 3)

\* wField := firstByte&0b1 == 1
analyzeWField(instruction) == LowBits(At(instruction, 0), 1) = 1

\* isWord := (firstByte>>3)&0b00001 == 1
analyzeIsWord(instruction) == LowBits(Shr(At(instruction, 0), 3), 1) = 1

(* analyzeOpCode: the bytesToRead of each branch *)

\* faulty variant: "no displacement follows" taken as no bytes to read
RegisterMemoryBytesToReadNoBase(instruction) ==
    LET modField == analyzeModField(instruction)
    IN  CASE modField = 0 -> IF analyzeRmField(instruction) = 6 THEN 4 ELSE 0
          [] modField = 1 -> 3
          [] modField = 2 -> 4
          [] modField = 3 -> 2
          [] OTHER -> 0

RegisterMemoryBytesToRead(instruction) ==
    LET modField == analyzeModField(instruction)
    IN  CASE modField = 0 -> IF analyzeRmField(instruction) = 6 THEN 4 ELSE 2
          [] modField = 1 -> 3
          [] modField = 2 -> 4
          [] modField = 3 -> 2
          [] OTHER -> 0

AccumulatorBytesToRead(instruction) ==
    IF analyzeWField(instruction) THEN 2 + 1 ELSE 2

\* faulty variant: the direct-address case of the register/memory variant
\* copied here, where the renderer reads no address bytes
ImmediateToRegisterMemoryBytesToReadDirect(instruction) ==
    LET base == IF analyzeWField(instruction) THEN 3 + 1 ELSE 3
        modField == analyzeModField(instruction)
    IN  CASE modField = 0 -> IF analyzeRmField(instruction) = 6 THEN base + 2 ELSE base
          [] modField = 1 -> base + 1
          [] modField = 2 -> base + 2
          [] OTHER -> base

ImmediateToRegisterMemoryBytesToRead(instruction) ==
    LET base == IF analyzeWField(instruction) THEN 3 + 1 ELSE 3
        modField == analyzeModField(instruction)
    IN  CASE modField = 1 -> base + 1
          [] modField = 2 -> base + 2
          [] OTHER -> base

ImmediateToRegisterBytesToRead(instruction) ==
    IF analyzeIsWord(instruction) THEN 3 ELSE 2

(* analyzeOpCode: the five prefix tests of the if / else-if chain *)

\* faulty variant: the 6-bit prefix 001000 is tested
IsRegisterMemoryToFromRegisterLow6(firstByte) ==
    Shr(firstByte, 2) = Shr(MovRegisterMemoryToFromRegister, 2)

\* firstByte>>2 == byte(MovRegisterMemoryToFromRegister)
IsRegisterMemoryToFromRegister(firstByte) ==
    Shr(firstByte, 2) = MovRegisterMemoryToFromRegister

\* firstByte>>1 == byte(MovMemoryToAccumulator)
IsMemoryToAccumulator(firstByte) == Shr(firstByte, 1) = MovMemoryToAccumulator

\* firstByte>>1 == byte(MovAccumulatorToMemory)
IsAccumulatorToMemory(firstByte) == Shr(firstByte, 1) = MovAccumulatorToMemory

\* firstByte>>1 == byte(MovImmediateToRegisterMemory)
IsImmediateToRegisterMemory(firstByte) ==
    Shr(firstByte, 1) = MovImmediateToRegisterMemory

\* faulty variant: one bit too many shifted out, the prefix 101 is tested
IsImmediateToRegisterTop3(firstByte) ==
    Shr(firstByte, 5) = Shr(MovImmediateToRegister, 1)

\* firstByte>>4 == byte(MovImmediateToRegister)
IsImmediateToRegister(firstByte) == Shr(firstByte, 4) = MovImmediateToRegister

(* analyzeOpCode: the if / else-if chain over the first byte *)
analyzeOpCode(instruction) ==
    LET firstByte == At(instruction, 0)
    IN  IF IsRegisterMemoryToFromRegister(firstByte)
        THEN [opcode |-> MovRegisterMemoryToFromRegister,
              bytesToRead |-> RegisterMemoryBytesToRead(instruction),
              err |-> NoError]
        ELSE IF IsMemoryToAccumulator(firstByte)
        THEN [opcode |-> MovMemoryToAccumulator,
              bytesToRead |-> AccumulatorBytesToRead(instruction),
              err |-> NoError]
        ELSE IF IsAccumulatorToMemory(firstByte)
        THEN [opcode |-> MovAccumulatorToMemory,
              bytesToRead |-> AccumulatorBytesToRead(instruction),
              err |-> NoError]
        ELSE IF IsImmediateToRegisterMemory(firstByte)
        THEN [opcode |-> MovImmediateToRegisterMemory,
              bytesToRead |-> ImmediateToRegisterMemoryBytesToRead(instruction),
              err |-> NoError]
        ELSE IF IsImmediateToRegister(firstByte)
        THEN [opcode |-> MovImmediateToRegister,
              bytesToRead |-> ImmediateToRegisterBytesToRead(instruction),
              err |-> NoError]
        ELSE [opcode |-> 0, bytesToRead |-> 0, err |-> CannotIdentify]

\* d.Data[lo:hi]: the backing array holds Data followed by zeroed spare bytes
Slice(d, lo, hi) == [i \in 1 .. (hi - lo) |-> At(d, lo + i - 1)]

\* faulty variant: an unrecognised byte is skipped to resynchronise
DecoderNextResync(d, cap, p) ==
    IF ~HasNext(d, p)
    THEN [opcode |-> 0, instr |-> <<>>, err |-> EOF, pos |-> p]
    ELSE LET inst == Slice(d, p, p + 2)
             r == analyzeOpCode(inst)
         IN  IF r.err # NoError
             THEN [opcode |-> 0, instr |-> <<>>, err |-> r.err, pos |-> p + 1]
             ELSE IF p + r.bytesToRead > cap
             THEN [opcode |-> 0, instr |-> <<>>, err |-> SliceOutOfRange, pos |-> p]
             ELSE [opcode |-> r.opcode,
                   instr |-> Slice(d, p, p + r.bytesToRead),
                   err |-> NoError,
                   pos |-> p + r.bytesToRead]

(* Decoder.Next, as a function of the Decoder and the capacity of its slice *)
DecoderNext(d, cap, p) ==
    IF ~HasNext(d, p)
    THEN [opcode |-> 0, instr |-> <<>>, err |-> EOF, pos |-> p]
    ELSE LET inst == Slice(d, p, p + 2)
             r == analyzeOpCode(inst)
         IN  IF r.err # NoError
             THEN [opcode |-> 0, instr |-> <<>>, err |-> r.err, pos |-> p]
             ELSE IF p + r.bytesToRead > cap
             THEN [opcode |-> 0, instr |-> <<>>, err |-> SliceOutOfRange, pos |-> p]
             ELSE [opcode |-> r.opcode,
                   instr |-> Slice(d, p, p + r.bytesToRead),
                   err |-> NoError,
                   pos |-> p + r.bytesToRead]

----------------------------------------------------------------------------
(* Register name tables *)

byteToRegisterW1String(value) ==
    CASE value = 0 -> "ax"
      [] value = 1 -> "cx"
      [] value = 2 -> "dx"
      [] value = 3 -> "bx"
      [] value = 4 -> "sp"
      [] value = 5 -> "bp"
      [] value = 6 -> "si"
      [] value = 7 -> "di"
      [] OTHER -> ""

byteToRegisterW0String(value) ==
    CASE value = 0 -> "al"
      [] value = 1 -> "cl"
      [] value = 2 -> "dl"
      [] value = 3 -> "bl"
      [] value = 4 -> "ah"
      [] value = 5 -> "ch"
      [] value = 6 -> "dh"
      [] value = 7 -> "bh"
      [] OTHER -> ""

byteToRegisterString(isWordOperation, register) ==
    IF isWordOperation
    THEN byteToRegisterW1String(register)
    ELSE byteToRegisterW0String(register)

effectiveAddressCalculation(rmField) ==
    CASE rmField = 0 -> "bx + si"
      [] rmField = 1 -> "bx + di"
      [] rmField = 2 -> "bp + si"
      [] rmField = 3 -> "bp + di"
      [] rmField = 4 -> "si"
      [] rmField = 5 -> "di"
      [] rmField = 6 -> "bp"
      [] rmField = 7 -> "bx"
      [] OTHER -> ""

----------------------------------------------------------------------------
(* The fields the decode functions extract from the span *)

\* w := instruction[0]&0b1 == 1
decodeW(instruction) == LowBits(At(instruction, 0), 1) = 1

\* d := (instruction[0]>>1)&0b1 == 1
decodeD(instruction) == LowBits(Shr(At(instruction, 0), 1), 1) = 1

\* modField := (instruction[1] >> 6) & 0b11
decodeModField(instruction) == LowBits(Shr(At(instruction, 1), 6), 2)

\* regField := (instruction[1] >> 3) & 0b0000_0111
decodeRegField(instruction) == LowBits(Shr(At(instruction, 1), 3), 3)

\* rmField := instruction[1] & 0b0000_0111
decodeRmField(instruction) == LowBits(At(instruction, 1), 3)

\* isWord := (instruction[0]>>3)&0b1 == 1
decodeIsWord(instruction) == LowBits(Shr(At(instruction, 0), 3), 1) = 1

\* regField := instruction[0] & 0b0000_0111
decodeImmediateRegField(instruction) == LowBits(At(instruction, 0), 3)

\* faulty variant: the displacement term is left out when it is zero
DisplacementOperandOmitZero(rmField, displacement) ==
    IF displacement = 0
    THEN "[" \o effectiveAddressCalculation(rmField) \o "]"
    ELSE "[" \o effectiveAddressCalculation(rmField)
             \o " + " \o FormatInt(displacement) \o "]"

\* fmt.Sprintf("[%v + %v]", effectiveAddressCalculation(rmField), displacement)
DisplacementOperand(rmField, displacement) ==
    "[" \o effectiveAddressCalculation(rmField) \o " + " \o FormatInt(displacement) \o "]"

(***************************************************************************)
(* The decode functions.  Each yields the text it builds and the set of    *)
(* indices of the span it reads (an index >= len(instruction) is a Go      *)
(* index-out-of-range panic).                                              *)
(***************************************************************************)

decodeMovRegisterMemoryToFromRegister(instruction) ==
    LET w == decodeW(instruction)
        d == decodeD(instruction)
        modField == decodeModField(instruction)
        regField == decodeRegField(instruction)
        rmField == decodeRmField(instruction)
        regFirst == IF d THEN byteToRegisterString(w, regField) \o ", " ELSE ""
        regLast == IF ~d THEN ", " \o byteToRegisterString(w, regField) ELSE ""
        disp8 == Int8(At(instruction, 2))
        disp16 == Int16(At(instruction, 2), At(instruction, 3))
    IN  CASE modField = 0 ->
               IF rmField = 6
               THEN [text |-> "mov " \o regFirst
                                \o "[" \o FormatInt(disp16) \o "]" \o regLast,
                     reads |-> {0, 1, 2, 3}]
               ELSE [text |-> "mov " \o regFirst
                                \o "[" \o effectiveAddressCalculation(rmField) \o "]"
                                \o regLast,
                     reads |-> {0, 1}]
          [] modField = 1 ->
               [text |-> "mov " \o regFirst
                          \o DisplacementOperand(rmField, disp8) \o regLast,
                reads |-> {0, 1, 2}]
          [] modField = 2 ->
               [text |-> "mov " \o regFirst
                          \o DisplacementOperand(rmField, disp16) \o regLast,
                reads |-> {0, 1, 2, 3}]
          [] modField = 3 ->
               [text |-> "mov " \o byteToRegisterString(w, rmField)
                          \o ", " \o byteToRegisterString(w, regField),
                reads |-> {0, 1}]
          [] OTHER -> [text |-> "mov ", reads |-> {0, 1}]

\* the ", word v" / ", byte v" operand read at index i (and i + 1 when w)
ImmediateData(instruction, w, i) ==
    IF w
    THEN [text |-> ", word " \o FormatInt(Uint16(At(instruction, i), At(instruction, i + 1))),
          reads |-> {i, i + 1}]
    ELSE [text |-> ", byte " \o FormatInt(At(instruction, i)),
          reads |-> {i}]

decodeMovImmediateToRegisterMemory(instruction) ==
    LET w == decodeW(instruction)
        modField == decodeModField(instruction)
        rmField == decodeRmField(instruction)
    IN  CASE modField = 0 ->
               LET data == ImmediateData(instruction, w, 2)
               IN  IF rmField = 6
                   THEN [text |-> "mov " \o "direct address 2" \o data.text,
                         reads |-> {0, 1} \cup data.reads]
                   ELSE [text |-> "mov " \o "[" \o effectiveAddressCalculation(rmField)
                                    \o "]" \o data.text,
                         reads |-> {0, 1} \cup data.reads]
          [] modField = 1 ->
               LET displacement == Int8(At(instruction, 2))
                   data == ImmediateData(instruction, w, 3)
               IN  [text |-> "mov " \o DisplacementOperand(rmField, displacement)
                              \o data.text,
                    reads |-> {0, 1, 2} \cup data.reads]
          [] modField = 2 ->
               LET displacement == Uint16(At(instruction, 2), At(instruction, 3))
                   data == ImmediateData(instruction, w, 4)
               IN  [text |-> "mov " \o DisplacementOperand(rmField, displacement)
                              \o data.text,
                    reads |-> {0, 1, 2, 3} \cup data.reads]
          [] OTHER -> [text |-> "mov ", reads |-> {0, 1}]

decodeMovImmediateToRegister(instruction) ==
    LET isWord == decodeIsWord(instruction)
        regField == decodeImmediateRegField(instruction)
        data == IF isWord
                THEN Uint16(At(instruction, 1), At(instruction, 2))
                ELSE At(instruction, 1)
    IN  [text |-> "mov " \o byteToRegisterString(isWord, regField)
                   \o ", " \o FormatInt(data),
         reads |-> IF isWord THEN {0, 1, 2} ELSE {0, 1}]

\* faulty variant: both address bytes of the documented layout are read
\* whatever w is
AccumulatorAddressWide(instruction) ==
    [text |-> "[" \o FormatInt(Uint16(At(instruction, 1), At(instruction, 2))) \o "]",
     reads |-> {0, 1, 2}]

\* the "[address]" operand of the two accumulator variants
AccumulatorAddress(instruction) ==
    IF decodeW(instruction)
    THEN [text |-> "[" \o FormatInt(Uint16(At(instruction, 1), At(instruction, 2))) \o "]",
          reads |-> {0, 1, 2}]
    ELSE [text |-> "[" \o FormatInt(At(instruction, 1)) \o "]",
          reads |-> {0, 1}]

decodeMemoryToAccumulator(instruction) ==
    LET address == AccumulatorAddress(instruction)
    IN  [text |-> "mov ax, " \o address.text, reads |-> address.reads]

decodeAccumulatorToMemory(instruction) ==
    LET address == AccumulatorAddress(instruction)
    IN  [text |-> "mov " \o address.text \o ", ax", reads |-> address.reads]

(* Decoder.AsmString *)
AsmString(op, instruction) ==
    CASE op = MovRegisterMemoryToFromRegister ->
             decodeMovRegisterMemoryToFromRegister(instruction)
      [] op = MovImmediateToRegisterMemory ->
             decodeMovImmediateToRegisterMemory(instruction)
      [] op = MovMemoryToAccumulator -> decodeMemoryToAccumulator(instruction)
      [] op = MovAccumulatorToMemory -> decodeAccumulatorToMemory(instruction)
      [] op = MovImmediateToRegister -> decodeMovImmediateToRegister(instruction)
      [] OTHER -> [text |-> "", reads |-> {}]

\* the index-out-of-range panic of a decode function
IndexOutOfRange(instruction, reads) == \E i \in reads : i >= Len(instruction)

----------------------------------------------------------------------------
(* Initial states *)

\* the listings of at most n bytes over the alphabet
Listings(n) == UNION { [1 .. k -> Alphabet] : k \in 0 .. n }

\* the state after `decoder := deco.Decoder{Data: data}` (pos is zero), for a
\* listing d whose backing array has c bytes, driven by who
Constructed(d, c, who) ==
    /\ Data = d
    /\ capacity = c
    /\ pos = 0
    /\ client = who
    /\ pc = IF who = "main" THEN "hasnext" ELSE "caller"
    /\ more = FALSE
    /\ opcode = 0
    /\ instr = <<>>
    /\ err = NoError
    /\ asm = ""
    /\ builder = IF who = "main" THEN <<"; listing", "bits 16">> ELSE <<>>
    /\ lengths = <<>>

Init ==
    \E d \in Listings(MaxLen), slack \in 0 .. MaxSlack, who \in {"main", "caller"} :
        Constructed(d, Len(d) + slack, who)

\* main on every listing of one candidate instruction: any first two bytes,
\* followed by enough bytes for the longest instruction
InitDecode ==
    \E b0 \in Byte, b1 \in Byte, t \in Tails :
        Constructed(<<b0, b1>> \o t, 2 + Len(t), "main")

----------------------------------------------------------------------------
(* main: the loop over the listing *)

\* if !decoder.HasNext() { break }
MainHasNext ==
    /\ client = "main"
    /\ pc = "hasnext"
    /\ more' = HasNext(Data, pos)
    /\ pc' = IF HasNext(Data, pos) THEN "next" ELSE "done"
    /\ UNCHANGED <<Data, capacity, pos, client, opcode, instr, err, asm, builder, lengths>>

\* opcode, instr, err := decoder.Next(); if err != nil { log.Print(err); break }
MainNext ==
    /\ client = "main"
    /\ pc = "next"
    /\ LET r == DecoderNext(Data, capacity, pos)
       IN  /\ opcode' = r.opcode
           /\ instr' = r.instr
           /\ err' = r.err
           /\ pos' = r.pos
           /\ lengths' = IF r.err = NoError THEN Append(lengths, Len(r.instr)) ELSE lengths
           /\ pc' = IF r.err = SliceOutOfRange THEN "panic"
                    ELSE IF r.err # NoError THEN "done"
                    ELSE "render"
    /\ UNCHANGED <<Data, capacity, client, more, asm, builder>>

\* instrAsmString := decoder.AsmString(opcode, instr)
\* builder.WriteString(instrAsmString + "\n")
MainRender ==
    /\ client = "main"
    /\ pc = "render"
    /\ LET a == AsmString(opcode, instr)
       IN  IF IndexOutOfRange(instr, a.reads)
           THEN /\ pc' = "panic"
                /\ UNCHANGED <<asm, builder>>
           ELSE /\ pc' = "hasnext"
                /\ asm' = a.text
                /\ builder' = Append(builder, a.text)
    /\ UNCHANGED <<Data, capacity, pos, client, more, opcode, instr, err, lengths>>

MainStep == MainHasNext \/ MainNext \/ MainRender

(* any other importer of the package: the exported methods in any order *)

CallHasNext ==
    /\ client = "caller"
    /\ more' = HasNext(Data, pos)
    /\ UNCHANGED <<Data, capacity, pos, client, pc, opcode, instr, err, asm, builder, lengths>>

\* a slice-bounds panic of Next is recovered by the caller
CallNext ==
    /\ client = "caller"
    /\ LET r == DecoderNext(Data, capacity, pos)
       IN  /\ opcode' = r.opcode
           /\ instr' = r.instr
           /\ err' = r.err
           /\ pos' = r.pos
           /\ lengths' = IF r.err = NoError THEN Append(lengths, Len(r.instr)) ELSE lengths
    /\ UNCHANGED <<Data, capacity, client, pc, more, asm, builder>>

\* AsmString on what the last Next returned
CallAsmString ==
    /\ client = "caller"
    /\ LET a == AsmString(opcode, instr)
       IN  asm' = IF IndexOutOfRange(instr, a.reads) THEN "panic: index out of range"
                  ELSE a.text
    /\ UNCHANGED <<Data, capacity, pos, client, pc, more, opcode, instr, err, builder, lengths>>

CallerStep == CallHasNext \/ CallNext \/ CallAsmString

Next == MainStep \/ CallerStep

Spec == Init /\ [][Next]_vars

\* main runs its loop to the end; a caller may stop calling at any time
FairSpec == Init /\ [][Next]_vars /\ WF_vars(MainStep)

SpecDecode == InitDecode /\ [][MainStep]_vars

----------------------------------------------------------------------------
(* Helpers of the properties *)

RECURSIVE Sum(_)
Sum(s) == IF s = <<>> THEN 0 ELSE Head(s) + Sum(Tail(s))

\* the instruction lines of main's output (after the two header lines)
InstructionLines == SubSeq(builder, 3, Len(builder))

StartsWith(s, prefix) == Len(prefix) <= Len(s) /\ SubSeq(s, 1, Len(prefix)) = prefix

EndsWith(s, suffix) ==
    Len(suffix) <= Len(s) /\ SubSeq(s, Len(s) - Len(suffix) + 1, Len(s)) = suffix

Contains(s, part) ==
    \E i \in 1 .. (Len(s) - Len(part) + 1) : SubSeq(s, i, i + Len(part) - 1) = part

TypeOK ==
    /\ pos \in Nat
    /\ capacity >= Len(Data)
    /\ pc \in {"hasnext", "next", "render", "done", "panic", "caller"}
    /\ err \in {NoError, EOF, CannotIdentify, SliceOutOfRange}

----------------------------------------------------------------------------
(* Properties of the cursor: Decoder.HasNext and Decoder.Next *)

\* the bytes left behind the cursor (negative when the cursor is past the end)
Remaining == Len(Data) - pos

\* a step that is a call of Decoder.Next
NextCall == MainNext \/ CallNext

\* the first byte at the cursor has none of the five bit patterns of the
\* 8086 manual: 100010dw, 1010000w, 1010001w, 1100011w, 1011wreg
UnknownFirstByte(b) ==
    b \notin ((136 .. 139) \cup (160 .. 163) \cup (198 .. 199) \cup (176 .. 191))

\* C1: after N successful Next calls the cursor equals the sum of the N
\* returned span lengths, and the cursor never exceeds len(Data), also when
\* the last instruction is truncated.
C1_CursorWithinBuffer ==
    /\ pos = Sum(lengths)
    /\ pos <= Len(Data)

\* C2: Next at a position whose first byte matches no variant prefix returns
\* an error, no variant and no span and leaves the cursor where it is; it
\* never resynchronises, so a later Next call returns the same error; and
\* main stops there: its output has one line per instruction decoded before
\* that offset and none after.
C2_UnrecognizedStops ==
    /\ [][(NextCall /\ pos < Len(Data) /\ UnknownFirstByte(At(Data, pos)))
            => /\ err' = IF Remaining >= 2 THEN CannotIdentify ELSE EOF
               /\ opcode' = 0
               /\ instr' = <<>>
               /\ pos' = pos
               /\ lengths' = lengths]_vars
    /\ [][err = CannotIdentify
            => (err' = CannotIdentify /\ pos' = pos /\ builder' = builder)]_vars
    /\ []((client = "main" /\ err = CannotIdentify)
            => /\ pc = "done"
               /\ Len(InstructionLines) = Len(lengths)
               /\ Sum(lengths) = pos)

\* C2 happens: main stopped at an unrecognised byte behind a decoded instruction
C2_Witness ==
    /\ client = "main"
    /\ pc = "done"
    /\ err = CannotIdentify
    /\ Len(lengths) = 1
    /\ Remaining >= 2
    /\ UnknownFirstByte(At(Data, pos))

\* C3: the loop `for { if !HasNext() break; Next() }` of main terminates:
\* HasNext holds exactly when at least 2 bytes remain, a successful Next
\* advances the cursor by at least 2, and with 0 or 1 bytes remaining Next
\* returns io.EOF, leaves the cursor alone and main reports no
\* classification error.
C3_LoopTerminates ==
    /\ [](HasNext(Data, pos) <=> Remaining >= 2)
    /\ [][(NextCall /\ lengths' # lengths) => pos' >= pos + 2]_vars
    /\ [][(NextCall /\ Remaining \in {0, 1})
            => (err' = EOF /\ pos' = pos /\ opcode' = 0 /\ instr' = <<>>)]_vars
    /\ [][(MainHasNext /\ Remaining \in {0, 1}) => (pc' = "done" /\ ~more')]_vars
    /\ []((client = "main" /\ pc = "done" /\ Remaining \in {0, 1}) => err = NoError)
    /\ <>(client = "main" => pc \in {"done", "panic"})

\* C3 happens: main left the loop with one byte behind a decoded instruction
C3_Witness ==
    /\ client = "main"
    /\ pc = "done"
    /\ ~more
    /\ Remaining = 1
    /\ Len(lengths) = 1
    /\ err = NoError

----------------------------------------------------------------------------
(* Properties of the classifier, on every pair of first two bytes *)

FirstByte == At(Data, 0)

SecondByte == At(Data, 1)

\* the first Next call of main has returned
FirstNextReturned ==
    \/ pc = "render" /\ Len(lengths) = 1
    \/ pc \in {"done", "panic"} /\ lengths = <<>>

\* main has rendered the first instruction of the listing
FirstRendered == pc = "hasnext" /\ Len(lengths) = 1

Variants ==
    { MovRegisterMemoryToFromRegister, MovMemoryToAccumulator, MovAccumulatorToMemory,
      MovImmediateToRegisterMemory, MovImmediateToRegister }

\* the variants whose prefix test accepts the byte, whatever the order of the tests
Matching(b) ==
    { v \in Variants :
        \/ v = MovRegisterMemoryToFromRegister /\ IsRegisterMemoryToFromRegister(b)
        \/ v = MovMemoryToAccumulator /\ IsMemoryToAccumulator(b)
        \/ v = MovAccumulatorToMemory /\ IsAccumulatorToMemory(b)
        \/ v = MovImmediateToRegisterMemory /\ IsImmediateToRegisterMemory(b)
        \/ v = MovImmediateToRegister /\ IsImmediateToRegister(b) }

\* C4: for every first byte at most one of the five prefix tests matches, the
\* variant returned is the one whose test matches, a byte no test matches
\* yields the error and no variant, and the result is a function of the first
\* two bytes: the bytes behind them do not change it.
C4_ClassifierTotal ==
    /\ Cardinality(Variants) = 5
    /\ Cardinality(Matching(FirstByte)) <= 1
    /\ FirstNextReturned =>
          /\ IF Matching(FirstByte) = {}
             THEN err = CannotIdentify /\ opcode = 0 /\ instr = <<>> /\ pos = 0
             ELSE err = NoError /\ opcode \in Matching(FirstByte)
          /\ \A t \in Tails :
                LET r == DecoderNext(<<FirstByte, SecondByte>> \o t, capacity, 0)
                IN  r.opcode = opcode /\ r.err = err /\ r.pos = pos

\* C4 happens: a byte of the last prefix tested was classified
C4_Witness ==
    /\ pc = "render"
    /\ opcode = MovImmediateToRegister
    /\ Matching(FirstByte) = {MovImmediateToRegister}

\* the bits of a byte, most significant first
Bits(b) == [i \in 1 .. 8 |-> (b \div (2 ^ (8 - i))) % 2]

TopBits(b, n) == SubSeq(Bits(b), 1, n)

\* the variant of a first byte by a table of prefixes, 0 for none;
\* registerMemoryPrefix is the 6-bit prefix of RegisterMemoryToFromRegister
VariantByPrefix(b, registerMemoryPrefix) ==
    IF TopBits(b, 6) = registerMemoryPrefix THEN MovRegisterMemoryToFromRegister
    ELSE IF TopBits(b, 7) = <<1, 0, 1, 0, 0, 0, 0>> THEN MovMemoryToAccumulator
    ELSE IF TopBits(b, 7) = <<1, 0, 1, 0, 0, 0, 1>> THEN MovAccumulatorToMemory
    ELSE IF TopBits(b, 7) = <<1, 1, 0, 0, 0, 1, 1>> THEN MovImmediateToRegisterMemory
    ELSE IF TopBits(b, 4) = <<1, 0, 1, 1>> THEN MovImmediateToRegister
    ELSE 0

\* C5 as stated: the first byte is classified by the prefixes 001000,
\* 1010000, 1010001, 1100011 and 1011; RegisterMemoryToFromRegister exactly
\* when the top 6 bits are 001000.
C5_ClaimedPrefixes ==
    FirstNextReturned => opcode = VariantByPrefix(FirstByte, <<0, 0, 1, 0, 0, 0>>)

\* C5 amended: the first byte is classified by the prefixes 100010, 1010000,
\* 1010001, 1100011 and 1011; RegisterMemoryToFromRegister exactly when the
\* top 6 bits are 100010.
C5_Prefixes ==
    FirstNextReturned => opcode = VariantByPrefix(FirstByte, <<1, 0, 0, 0, 1, 0>>)

\* C5 happens: a byte with the top 6 bits 100010 was classified
C5_Witness ==
    /\ pc = "render"
    /\ TopBits(FirstByte, 6) = <<1, 0, 0, 0, 1, 0>>
    /\ opcode = MovRegisterMemoryToFromRegister

\* the displacement bytes a mod value announces
DisplacementBytes(mod) == IF mod = 1 THEN 1 ELSE IF mod = 2 THEN 2 ELSE 0

\* the reference length of an instruction of variant v with first bytes b0 b1
ReferenceLength(v, b0, b1) ==
    LET mod == b1 \div 64
        rm == b1 % 8
        w == b0 % 2
    IN  CASE v = MovRegisterMemoryToFromRegister ->
               2 + (IF mod = 0 /\ rm = 6 THEN 2 ELSE DisplacementBytes(mod))
          [] v \in {MovMemoryToAccumulator, MovAccumulatorToMemory} -> 2 + w
          [] v = MovImmediateToRegisterMemory -> 3 + w + DisplacementBytes(mod)
          [] v = MovImmediateToRegister -> 2 + ((b0 \div 8) % 2)
          [] OTHER -> 0

----------------------------------------------------------------------------
(* Properties of the renderer *)

\* the two bytes Next hands to analyzeOpCode for the span it returned
Peeked == SubSeq(instr, 1, 2)

\* analyzeOpCode and the decode function of the variant extract the same
\* values of the fields the length depends on
FieldsAgree ==
    CASE opcode = MovRegisterMemoryToFromRegister ->
           /\ analyzeModField(Peeked) = decodeModField(instr)
           /\ analyzeRmField(Peeked) = decodeRmField(instr)
      [] opcode \in {MovMemoryToAccumulator, MovAccumulatorToMemory} ->
           analyzeWField(Peeked) = decodeW(instr)
      [] opcode = MovImmediateToRegisterMemory ->
           /\ analyzeWField(Peeked) = decodeW(instr)
           /\ analyzeModField(Peeked) = decodeModField(instr)
      [] opcode = MovImmediateToRegister ->
           analyzeIsWord(Peeked) = decodeIsWord(instr)
      [] OTHER -> FALSE

\* C7: for every (variant, span) a successful Next returns, AsmString derives
\* the same field values as analyzeOpCode and reads no byte index at or past
\* the length of the span.
C7_RendererWithinSpan ==
    /\ pc # "panic"
    /\ (pc = "render") =>
          /\ FieldsAgree
          /\ \A i \in AsmString(opcode, instr).reads : i < Len(instr)

\* C7 happens: the renderer read the last byte of a 6-byte span
C7_Witness ==
    /\ FirstRendered
    /\ opcode = MovImmediateToRegisterMemory
    /\ Len(instr) = 6
    /\ 5 \in AsmString(opcode, instr).reads
    /\ asm # ""

\* C8: for every RegisterMemoryToFromRegister instruction, whatever its mod,
\* the register of the reg field is the first operand when d=1 and the second
\* operand when d=0.
C8_OperandOrder ==
    (FirstRendered /\ opcode = MovRegisterMemoryToFromRegister) =>
        LET w == FirstByte % 2 = 1
            d == (FirstByte \div 2) % 2 = 1
            reg == byteToRegisterString(w, (SecondByte \div 8) % 8)
        IN  IF d
            THEN StartsWith(asm, "mov " \o reg \o ", ")
            ELSE EndsWith(asm, ", " \o reg)

\* C9: for every ImmediateToRegisterMemory span, whatever its mod, the text
\* contains "byte " + value (w=0) or "word " + value (w=1), the value being
\* the data behind the displacement bytes.
C9_ImmediateOperand ==
    (FirstRendered /\ opcode = MovImmediateToRegisterMemory) =>
        LET w == FirstByte % 2 = 1
            at == 2 + DisplacementBytes(SecondByte \div 64)
        IN  IF w
            THEN Contains(asm, "word "
                     \o FormatInt(At(instr, at) + 256 * At(instr, at + 1)))
            ELSE Contains(asm, "byte " \o FormatInt(At(instr, at)))

\* C10: the listing [0xA0, 0x00, 0x01] decodes to exactly one instruction,
\* MemoryToAccumulator of length 3 consuming all three bytes, rendered
\* "mov ax, [256]".
C10_Scenario ==
    (client = "main" /\ Data = <<160, 0, 1>> /\ pc = "done") =>
        /\ opcode = MovMemoryToAccumulator
        /\ lengths = <<3>>
        /\ pos = 3
        /\ InstructionLines = <<"mov ax, [256]">>

----------------------------------------------------------------------------
(* Properties of the rendered memory operand *)

\* the variants with a mod/r/m byte
HasModRm == opcode \in {MovRegisterMemoryToFromRegister, MovImmediateToRegisterMemory}

\* the mod and r/m fields of the second byte
ModOfSecond == SecondByte \div 64

RmOfSecond == SecondByte % 8

\* C11: in both variants with a mod/r/m byte an instruction with mod=00 and
\* r/m=110 renders its memory operand as "[" + absolute-address + "]", the
\* address being the 16-bit little-endian value of the two address bytes, and
\* "bp" is not emitted.
C11_DirectAddress ==
    (FirstRendered /\ HasModRm /\ ModOfSecond = 0 /\ RmOfSecond = 6) =>
        /\ Contains(asm, "[" \o FormatInt(At(Data, 2) + 256 * At(Data, 3)) \o "]")
        /\ ~Contains(asm, "bp")

\* the displacement of the instruction as a signed two's-complement value:
\* the third byte for mod=01, the third and fourth bytes for mod=10
SignedDisplacement ==
    IF ModOfSecond = 1
    THEN (IF At(Data, 2) >= 128 THEN At(Data, 2) - 256 ELSE At(Data, 2))
    ELSE LET u == At(Data, 2) + 256 * At(Data, 3)
         IN  IF u >= 32768 THEN u - 65536 ELSE u

\* C12: in every rendered memory operand with mod=01 or mod=10, of either
\* variant with a mod/r/m byte, the displacement is printed as the signed
\* decimal value of its bytes (8 bits for mod=01, 16 bits for mod=10).
C12_SignedDisplacement ==
    (FirstRendered /\ HasModRm /\ ModOfSecond \in {1, 2}) =>
        Contains(asm, " + " \o FormatInt(SignedDisplacement) \o "]")

\* the displacement bytes of the instruction are all zero
ZeroDisplacement ==
    /\ At(Data, 2) = 0
    /\ ModOfSecond = 2 => At(Data, 3) = 0

\* C13 as stated: the " + displacement" term is appended only when the
\* displacement is non-zero; with mod=01 or mod=10 and all displacement bytes
\* zero the memory operand renders as "[" + expression + "]".
C13_ZeroDisplacementOmitted ==
    (FirstRendered /\ HasModRm /\ ModOfSecond \in {1, 2} /\ ZeroDisplacement) =>
        Contains(asm, "[" \o effectiveAddressCalculation(RmOfSecond) \o "]")

\* C13 amended: the " + displacement" term is appended to every memory
\* operand with mod=01 or mod=10, also when the displacement is zero; with all
\* displacement bytes zero the operand renders as "[" + expression + " + 0]".
C13_ZeroDisplacementPrinted ==
    (FirstRendered /\ HasModRm /\ ModOfSecond \in {1, 2} /\ ZeroDisplacement) =>
        /\ Contains(asm, "[" \o effectiveAddressCalculation(RmOfSecond) \o " + 0]")
        /\ ~Contains(asm, "[" \o effectiveAddressCalculation(RmOfSecond) \o "]")

\* C13 happens: a register/memory instruction with mod=10, r/m=110 and a zero
\* displacement was rendered
C13_Witness ==
    /\ FirstRendered
    /\ opcode = MovRegisterMemoryToFromRegister
    /\ ModOfSecond = 2
    /\ RmOfSecond = 6
    /\ ZeroDisplacement
    /\ Contains(asm, "[bp + 0]")

====
